---- MODULE Spec2Model ----
(***************************************************************************)
(* A model of the chip8 crate: the instruction decoder (opcode.rs), the    *)
(* primitive types (data.rs), the machine state and the run entry point    *)
(* (emulation.rs) and the disassembler (disassemble.rs).                   *)
(*                                                                         *)
(* Values of the Rust enums are tuples whose first element is the variant  *)
(* name: Opcode::Add(V2, V1) is <<"Add", 2, 1>>, Option::None is           *)
(* <<"None">>, a panic is <<"Panic">>.  A Register(Nibble(n)) is the       *)
(* number n.                                                               *)
(***************************************************************************)
EXTENDS Integers, Naturals, Sequences, FiniteSets, TLC

VARIABLES
    \* Opcode::decode harness
    rt_op,          \* the Opcode that was encoded, or None when the word is raw input
    bytes,          \* the byte slice handed to Opcode::decode
    opcode,         \* the value Opcode::decode returned
    dec_pc,         \* "idle" | "fetched" | "done"
    \* Stack
    stack_index,    \* Stack.stack_index
    stack_memory,   \* Stack.memory
    s_op,           \* the last Stack method called
    s_result,       \* what it returned
    s_oob,          \* TRUE once the backing array was indexed out of bounds
    \* Emulator / Memory
    memory,         \* EmulatorState.memory
    program_counter,\* EmulatorState.program_counter
    e_pc,           \* "none" | "idle" | "unit" | "loop" | "returned" | "panicked"
    e_result,       \* the value Emulator::run returned
    e_call,         \* the last call: its arguments, result and the memory before it
    loads,          \* Memory::load calls made so far
    spins,          \* iterations of emulation_loop made so far, modulo MaxSpins + 1
    \* Disassembler
    d_opts,         \* the Disassembler's fields and the build profile
    d_program,      \* the program argument
    d_i,            \* the loop variable of disassemble
    d_end,          \* the end of the range being iterated
    d_out,          \* the lines written so far
    d_pc            \* "idle" | "loop" | "done" | "panic"

decVars   == <<rt_op, bytes, opcode, dec_pc>>
stackVars == <<stack_index, stack_memory, s_op, s_result, s_oob>>
emuVars   == <<memory, program_counter, e_pc, e_result, e_call, loads, spins>>
dasmVars  == <<d_opts, d_program, d_i, d_end, d_out, d_pc>>
vars      == <<decVars, stackVars, emuVars, dasmVars>>

U8  == 0..255

(***************************************************************************)
(* data.rs                                                                 *)
(***************************************************************************)
from_high(value) == (value \div 16) % 16

from_low(value) == value % 16

(***************************************************************************)
(* opcode.rs: the Opcode enum                                              *)
(***************************************************************************)
None  == <<"None">>
Panic == <<"Panic">>

Sys(addr)        == <<"Sys", addr>>
Cls              == <<"Cls">>
Ret              == <<"Ret">>
Jp(addr)         == <<"Jp", addr>>
Call(addr)       == <<"Call", addr>>
Se(r, kk)        == <<"Se", r, kk>>
Sne(r, kk)       == <<"Sne", r, kk>>
Sev(r1, r2)      == <<"Sev", r1, r2>>
LdImm(r, kk)     == <<"LdImm", r, kk>>
AddImm(r, kk)    == <<"AddImm", r, kk>>
Ld(r1, r2)       == <<"Ld", r1, r2>>
Or(r1, r2)       == <<"Or", r1, r2>>
And(r1, r2)      == <<"And", r1, r2>>
Xor(r1, r2)      == <<"Xor", r1, r2>>
Add(r1, r2)      == <<"Add", r1, r2>>
Sub(r1, r2)      == <<"Sub", r1, r2>>
Shr(r1)          == <<"Shr", r1>>
Subn(r1, r2)     == <<"Subn", r1, r2>>
Shl(r1)          == <<"Shl", r1>>
Snev(r1, r2)     == <<"Snev", r1, r2>>
Ldi(addr)        == <<"Ldi", addr>>
JpV0(addr)       == <<"JpV0", addr>>
Rnd(r, kk)       == <<"Rnd", r, kk>>
Drw(r1, r2, n)   == <<"Drw", r1, r2, n>>
Skp(r)           == <<"Skp", r>>
Sknp(r)          == <<"Sknp", r>>
LdVDt(r)         == <<"LdVDt", r>>
LdK(r)           == <<"LdK", r>>
LdDtV(r)         == <<"LdDtV", r>>
LdStV(r)         == <<"LdStV", r>>
AddI(r)          == <<"AddI", r>>
LdF(r)           == <<"LdF", r>>
LdB(r)           == <<"LdB", r>>
Dump(r)          == <<"Dump", r>>
Restore(r)       == <<"Restore", r>>

(***************************************************************************)
(* opcode.rs: addr_from_bytes and Opcode::decode, one operator per arm of  *)
(* the outer match that has an inner condition                             *)
(***************************************************************************)
addr_from_bytes_nomask(high, low) == high * 256 + low

addr_from_bytes(high, low) == (high % 16) * 256 + low

decode_0_low_only(b0, b1) ==
    IF b1 = 224 THEN Cls
    ELSE IF b1 = 238 THEN Ret
    ELSE Sys(addr_from_bytes(b0, b1))

decode_0(b0, b1) ==
    IF b0 = 0 /\ b1 = 224 THEN Cls
    ELSE IF b0 = 0 /\ b1 = 238 THEN Ret
    ELSE Sys(addr_from_bytes(b0, b1))

decode_5_unchecked(b0, b1) == Sev(from_low(b0), from_high(b1))

decode_5(b0, b1) ==
    IF from_low(b1) = 0
    THEN Sev(from_low(b0), from_high(b1))
    ELSE None

decode_8_swapped(b0, b1) ==
    LET r1 == from_high(b1)
        r2 == from_low(b0)
        n  == from_low(b1)
    IN  CASE n = 0  -> Ld(r1, r2)
          [] n = 1  -> Or(r1, r2)
          [] n = 2  -> And(r1, r2)
          [] n = 3  -> Xor(r1, r2)
          [] n = 4  -> Add(r1, r2)
          [] n = 5  -> Sub(r1, r2)
          [] n = 6  -> Shr(r1)
          [] n = 7  -> Subn(r1, r2)
          [] n = 14 -> Shl(r1)
          [] OTHER  -> None

decode_8(b0, b1) ==
    LET r1 == from_low(b0)
        r2 == from_high(b1)
        n  == from_low(b1)
    IN  CASE n = 0  -> Ld(r1, r2)
          [] n = 1  -> Or(r1, r2)
          [] n = 2  -> And(r1, r2)
          [] n = 3  -> Xor(r1, r2)
          [] n = 4  -> Add(r1, r2)
          [] n = 5  -> Sub(r1, r2)
          [] n = 6  -> Shr(r1)
          [] n = 7  -> Subn(r1, r2)
          [] n = 14 -> Shl(r1)
          [] OTHER  -> None

decode_9(b0, b1) ==
    IF from_low(b1) = 0
    THEN Snev(from_low(b0), from_high(b1))
    ELSE None

decode_E(b0, b1) ==
    LET r == from_low(b0)
    IN  CASE b1 = 158 -> Skp(r)
          [] b1 = 161 -> Sknp(r)
          [] OTHER    -> None

decode_F_panics(b0, b1) ==
    LET r == from_low(b0)
    IN  CASE b1 = 7   -> LdVDt(r)
          [] b1 = 10  -> LdK(r)
          [] b1 = 21  -> LdDtV(r)
          [] b1 = 24  -> LdStV(r)
          [] b1 = 30  -> AddI(r)
          [] b1 = 41  -> LdF(r)
          [] b1 = 51  -> LdB(r)
          [] b1 = 85  -> Dump(r)
          [] b1 = 101 -> Restore(r)
          [] OTHER    -> Panic

decode_F(b0, b1) ==
    LET r == from_low(b0)
    IN  CASE b1 = 7   -> LdVDt(r)
          [] b1 = 10  -> LdK(r)
          [] b1 = 21  -> LdDtV(r)
          [] b1 = 24  -> LdStV(r)
          [] b1 = 30  -> AddI(r)
          [] b1 = 41  -> LdF(r)
          [] b1 = 51  -> LdB(r)
          [] b1 = 85  -> Dump(r)
          [] b1 = 101 -> Restore(r)
          [] OTHER    -> None

\* Opcode::decode(bytes); assert_eq!(bytes.len(), 2) panics on any other length
decode(bs) ==
    IF Len(bs) # 2 THEN Panic
    ELSE
    LET b0 == bs[1]
        b1 == bs[2]
        n0 == from_high(b0)
    IN  CASE n0 = 0  -> decode_0(b0, b1)
          [] n0 = 1  -> Jp(addr_from_bytes(b0, b1))
          [] n0 = 2  -> Call(addr_from_bytes(b0, b1))
          [] n0 = 3  -> Se(from_low(b0), b1)
          [] n0 = 4  -> Sne(from_low(b0), b1)
          [] n0 = 5  -> decode_5(b0, b1)
          [] n0 = 6  -> LdImm(from_low(b0), b1)
          [] n0 = 7  -> AddImm(from_low(b0), b1)
          [] n0 = 8  -> decode_8(b0, b1)
          [] n0 = 9  -> decode_9(b0, b1)
          [] n0 = 10 -> Ldi(addr_from_bytes(b0, b1))
          [] n0 = 11 -> JpV0(addr_from_bytes(b0, b1))
          [] n0 = 12 -> Rnd(from_low(b0), b1)
          [] n0 = 13 -> Drw(from_low(b0), from_high(b1), from_low(b1))
          [] n0 = 14 -> decode_E(b0, b1)
          [] n0 = 15 -> decode_F(b0, b1)
          [] OTHER   -> None

(***************************************************************************)
(* opcode.rs: the word layout documented on each variant of Opcode         *)
(* (0nnn, 00E0, 3xkk, 8xy4, Dxyn, Fx07, ...), as the function from an      *)
(* Opcode to its word.  8xy6 and 8xyE carry no y in the Opcode: y is 0.    *)
(***************************************************************************)
EncAddr(group, nnn) == <<group * 16 + (nnn \div 256), nnn % 256>>

EncRegImm(group, x, kk) == <<group * 16 + x, kk>>

EncRegReg(group, x, y, n) == <<group * 16 + x, y * 16 + n>>

Encode(op) ==
    LET t == op[1]
    IN  CASE t = "Sys"     -> EncAddr(0, op[2])
          [] t = "Cls"     -> <<0, 224>>
          [] t = "Ret"     -> <<0, 238>>
          [] t = "Jp"      -> EncAddr(1, op[2])
          [] t = "Call"    -> EncAddr(2, op[2])
          [] t = "Se"      -> EncRegImm(3, op[2], op[3])
          [] t = "Sne"     -> EncRegImm(4, op[2], op[3])
          [] t = "Sev"     -> EncRegReg(5, op[2], op[3], 0)
          [] t = "LdImm"   -> EncRegImm(6, op[2], op[3])
          [] t = "AddImm"  -> EncRegImm(7, op[2], op[3])
          [] t = "Ld"      -> EncRegReg(8, op[2], op[3], 0)
          [] t = "Or"      -> EncRegReg(8, op[2], op[3], 1)
          [] t = "And"     -> EncRegReg(8, op[2], op[3], 2)
          [] t = "Xor"     -> EncRegReg(8, op[2], op[3], 3)
          [] t = "Add"     -> EncRegReg(8, op[2], op[3], 4)
          [] t = "Sub"     -> EncRegReg(8, op[2], op[3], 5)
          [] t = "Shr"     -> EncRegReg(8, op[2], 0, 6)
          [] t = "Subn"    -> EncRegReg(8, op[2], op[3], 7)
          [] t = "Shl"     -> EncRegReg(8, op[2], 0, 14)
          [] t = "Snev"    -> EncRegReg(9, op[2], op[3], 0)
          [] t = "Ldi"     -> EncAddr(10, op[2])
          [] t = "JpV0"    -> EncAddr(11, op[2])
          [] t = "Rnd"     -> EncRegImm(12, op[2], op[3])
          [] t = "Drw"     -> EncRegReg(13, op[2], op[3], op[4])
          [] t = "Skp"     -> EncRegImm(14, op[2], 158)
          [] t = "Sknp"    -> EncRegImm(14, op[2], 161)
          [] t = "LdVDt"   -> EncRegImm(15, op[2], 7)
          [] t = "LdK"     -> EncRegImm(15, op[2], 10)
          [] t = "LdDtV"   -> EncRegImm(15, op[2], 21)
          [] t = "LdStV"   -> EncRegImm(15, op[2], 24)
          [] t = "AddI"    -> EncRegImm(15, op[2], 30)
          [] t = "LdF"     -> EncRegImm(15, op[2], 41)
          [] t = "LdB"     -> EncRegImm(15, op[2], 51)
          [] t = "Dump"    -> EncRegImm(15, op[2], 85)
          [] t = "Restore" -> EncRegImm(15, op[2], 101)

\* The boundary operand values of the round trip
BoundaryRegs  == {0, 15}
BoundaryAddrs == {0, 4095}
BoundaryImms  == {0, 255}
BoundaryNibs  == {0, 15}

AddrTags   == {"Sys", "Jp", "Call", "Ldi", "JpV0"}
RegImmTags == {"Se", "Sne", "LdImm", "AddImm", "Rnd"}
RegRegTags == {"Sev", "Ld", "Or", "And", "Xor", "Add", "Sub", "Subn", "Snev"}
RegTags    == {"Shr", "Shl", "Skp", "Sknp", "LdVDt", "LdK", "LdDtV", "LdStV",
               "AddI", "LdF", "LdB", "Dump", "Restore"}

\* Every variant of Opcode over the given operand values
OpcodesOver(regs, addrs, imms, nibs) ==
    {Cls, Ret}
    \cup {<<t, a>> : t \in AddrTags, a \in addrs}
    \cup {<<t, r, k>> : t \in RegImmTags, r \in regs, k \in imms}
    \cup {<<t, r1, r2>> : t \in RegRegTags, r1 \in regs, r2 \in regs}
    \cup {<<t, r>> : t \in RegTags, r \in regs}
    \cup {Drw(r1, r2, n) : r1 \in regs, r2 \in regs, n \in nibs}

BoundaryOpcodes == OpcodesOver(BoundaryRegs, BoundaryAddrs, BoundaryImms, BoundaryNibs)

\* The whole Opcode type: registers and nibbles 0..15, u8 immediates, Addr = u16
\* restricted to what addr_from_bytes can build (12 bits)
IsOpcode(v) ==
    /\ Len(v) >= 1
    /\ \/ v \in {Cls, Ret}
       \/ Len(v) = 2 /\ v[1] \in AddrTags /\ v[2] \in 0..65535
       \/ Len(v) = 3 /\ v[1] \in RegImmTags /\ v[2] \in 0..15 /\ v[3] \in U8
       \/ Len(v) = 3 /\ v[1] \in RegRegTags /\ v[2] \in 0..15 /\ v[3] \in 0..15
       \/ Len(v) = 2 /\ v[1] \in RegTags /\ v[2] \in 0..15
       \/ Len(v) = 4 /\ v[1] = "Drw" /\ v[2] \in 0..15 /\ v[3] \in 0..15 /\ v[4] \in 0..15

(***************************************************************************)
(* The decoder's callers: a raw word is fetched, or an Opcode is encoded   *)
(* into its word, and Opcode::decode is applied to it.                     *)
(***************************************************************************)
NoValue == <<>>

DecodeIdle ==
    /\ rt_op = None
    /\ bytes = <<>>
    /\ opcode = NoValue
    /\ dec_pc = "idle"

FetchWord(b0, b1) ==
    /\ dec_pc = "idle"
    /\ bytes' = <<b0, b1>>
    /\ rt_op' = None
    /\ dec_pc' = "fetched"
    /\ UNCHANGED opcode
    /\ UNCHANGED <<stackVars, emuVars, dasmVars>>

EncodeStep(op) ==
    /\ dec_pc = "idle"
    /\ rt_op' = op
    /\ bytes' = Encode(op)
    /\ dec_pc' = "fetched"
    /\ UNCHANGED opcode
    /\ UNCHANGED <<stackVars, emuVars, dasmVars>>

DecodeStep ==
    /\ dec_pc = "fetched"
    /\ opcode' = decode(bytes)
    /\ dec_pc' = "done"
    /\ UNCHANGED <<rt_op, bytes>>
    /\ UNCHANGED <<stackVars, emuVars, dasmVars>>

(***************************************************************************)
(* emulation.rs: EmulationError and Stack                                  *)
(***************************************************************************)
MEMORY_SIZE == 4096

STACK_SIZE == 16

Ok == <<"Ok">>
OkValue(v) == <<"Ok", v>>
StackOverflow == <<"Err", "StackOverflow">>
StackUnderflow == <<"Err", "StackUnderflow">>
OutOfMemory == <<"Err", "OutOfMemory">>
InvalidInstruction(a) == <<"Err", "InvalidInstruction", a>>

\* #[derive(Default)] struct Stack
Stack_default == [stack_index |-> 0, memory |-> [i \in 0..(STACK_SIZE - 1) |-> 0]]

\* Stack::push with the full test written as `>` instead of `>=`
Stack_push_gt(self, addr) ==
    IF self.stack_index > STACK_SIZE - 1
    THEN [self |-> self, result |-> StackOverflow, oob |-> FALSE]
    ELSE LET index == self.stack_index + 1
         IN  IF index \in DOMAIN self.memory
             THEN [self |-> [stack_index |-> index,
                             memory |-> [self.memory EXCEPT ![index] = addr]],
                   result |-> Ok, oob |-> FALSE]
             ELSE [self |-> [self EXCEPT !.stack_index = index],
                   result |-> Panic, oob |-> TRUE]

\* Stack::push: the new state, the returned value, and whether self.memory
\* was indexed outside 0..STACK_SIZE-1 (a panic, after the increment)
Stack_push(self, addr) ==
    IF self.stack_index >= STACK_SIZE - 1
    THEN [self |-> self, result |-> StackOverflow, oob |-> FALSE]
    ELSE LET index == self.stack_index + 1
         IN  IF index \in DOMAIN self.memory
             THEN [self |-> [stack_index |-> index,
                             memory |-> [self.memory EXCEPT ![index] = addr]],
                   result |-> Ok, oob |-> FALSE]
             ELSE [self |-> [self EXCEPT !.stack_index = index],
                   result |-> Panic, oob |-> TRUE]

\* Stack::pop with the decrement made before the read
Stack_pop_predecrement(self) ==
    IF self.stack_index = 0
    THEN [self |-> self, result |-> StackUnderflow, oob |-> FALSE]
    ELSE IF self.stack_index - 1 \in DOMAIN self.memory
         THEN [self |-> [self EXCEPT !.stack_index = self.stack_index - 1],
               result |-> OkValue(self.memory[self.stack_index - 1]), oob |-> FALSE]
         ELSE [self |-> self, result |-> Panic, oob |-> TRUE]

\* Stack::pop
Stack_pop(self) ==
    IF self.stack_index = 0
    THEN [self |-> self, result |-> StackUnderflow, oob |-> FALSE]
    ELSE IF self.stack_index \in DOMAIN self.memory
         THEN [self |-> [self EXCEPT !.stack_index = self.stack_index - 1],
               result |-> OkValue(self.memory[self.stack_index]), oob |-> FALSE]
         ELSE [self |-> self, result |-> Panic, oob |-> TRUE]

\* The addresses the callers push
PushAddrs == {512, 4094}

TheStack == [stack_index |-> stack_index, memory |-> stack_memory]

StackInit ==
    /\ stack_index = Stack_default.stack_index
    /\ stack_memory = Stack_default.memory
    /\ s_op = <<"new">>
    /\ s_result = NoValue
    /\ s_oob = FALSE

Push(addr) ==
    /\ ~s_oob
    /\ LET r == Stack_push(TheStack, addr)
       IN  /\ stack_index' = r.self.stack_index
           /\ stack_memory' = r.self.memory
           /\ s_result' = r.result
           /\ s_oob' = r.oob
    /\ s_op' = <<"push", addr>>
    /\ UNCHANGED <<decVars, emuVars, dasmVars>>

Pop ==
    /\ ~s_oob
    /\ LET r == Stack_pop(TheStack)
       IN  /\ stack_index' = r.self.stack_index
           /\ stack_memory' = r.self.memory
           /\ s_result' = r.result
           /\ s_oob' = r.oob
    /\ s_op' = <<"pop">>
    /\ UNCHANGED <<decVars, emuVars, dasmVars>>

(***************************************************************************)
(* emulation.rs: Memory                                                    *)
(***************************************************************************)
\* struct Memory([u8; MEMORY_SIZE]) is the sequence of its bytes: the byte at
\* address a is the element a + 1
Memory_at(self, a) == self[a + 1]

\* impl Default for Memory
Memory_default == [i \in 1..MEMORY_SIZE |-> 0]

\* Memory::load with the size test written as `>=` instead of `>`
Memory_load_ge(self, offset, data) ==
    LET len == Len(data)
        old == SubSeq(self, 1, MEMORY_SIZE)
    IN  IF len >= MEMORY_SIZE - offset
        THEN [self |-> self, result |-> OutOfMemory]
        ELSE [self |-> [i \in 1..MEMORY_SIZE |->
                            IF i - 1 >= offset /\ i - 1 < offset + len
                            THEN data[i - offset]
                            ELSE old[i]],
              result |-> Ok]

\* Memory::load, for the offsets its callers pass (offset <= MEMORY_SIZE):
\* the loop stores data[i] at address i + offset for i in 0..data.len()
Memory_load(self, offset, data) ==
    LET len == Len(data)
        old == SubSeq(self, 1, MEMORY_SIZE)
    IN  IF len > MEMORY_SIZE - offset
        THEN [self |-> self, result |-> OutOfMemory]
        ELSE [self |-> [i \in 1..MEMORY_SIZE |->
                            IF i - 1 >= offset /\ i - 1 < offset + len
                            THEN data[i - offset]
                            ELSE old[i]],
              result |-> Ok]

\* Memory::fetch_instruction: both assertions, then the slice index..index+2
Memory_fetch_instruction(self, address) ==
    IF address % 2 # 0 THEN Panic
    ELSE IF ~(address < MEMORY_SIZE - 2) THEN Panic
    ELSE <<Memory_at(self, address), Memory_at(self, address + 1)>>

(***************************************************************************)
(* emulation.rs: Emulator                                                  *)
(***************************************************************************)
\* Emulator::new
start_address == 512

\* Bounds of the model
MaxLoads == 2
MaxSpins == 2

\* A byte slice of the given length: the word first, then a fill pattern
Data(len, word) ==
    [i \in 1..len |-> IF i <= 2 THEN word[i] ELSE ((i * 7 + word[2]) % 255) + 1]

LoadOffsets == {0, start_address, MEMORY_SIZE - 1}
LoadLens    == {0, 1, 2, MEMORY_SIZE - start_address, MEMORY_SIZE - start_address + 1,
                MEMORY_SIZE + 1}
LoadWords   == {<<162, 52>>}

ProgramLens  == {0, 2, 4, MEMORY_SIZE - start_address - 1, MEMORY_SIZE - start_address,
                 MEMORY_SIZE - start_address + 1, MEMORY_SIZE}
ProgramWords == {<<80, 1>>, <<128, 8>>, <<224, 0>>, <<255, 255>>,
                 <<18, 0>>, <<0, 224>>, <<162, 52>>}

NoCall == [fn |-> "none", offset |-> 0, data |-> <<>>, before |-> <<>>, result |-> NoValue]

\* Before main constructs an Emulator there is no machine state
EmuInit ==
    /\ memory = NoValue
    /\ program_counter = 0
    /\ e_pc = "none"
    /\ e_result = NoValue
    /\ e_call = NoCall
    /\ loads = 0
    /\ spins = 0

\* Emulator::new: start_address and EmulatorState::default()
Emulator_new ==
    /\ e_pc = "none"
    /\ memory' = Memory_default
    /\ program_counter' = 0
    /\ e_pc' = "idle"
    /\ stack_index' = Stack_default.stack_index
    /\ stack_memory' = Stack_default.memory
    /\ UNCHANGED <<e_result, e_call, loads, spins, s_op, s_result, s_oob>>
    /\ UNCHANGED <<decVars, dasmVars>>

\* A direct call of Memory::load on the memory
Load(offset, data) ==
    /\ e_pc \in {"idle", "unit"}
    /\ loads < MaxLoads
    /\ LET r == Memory_load(memory, offset, data)
       IN  /\ memory' = r.self
           /\ e_call' = [fn |-> "load", offset |-> offset, data |-> data,
                         before |-> memory, result |-> r.result]
    /\ e_pc' = "unit"
    /\ loads' = loads + 1
    /\ UNCHANGED <<program_counter, e_result, spins>>
    /\ UNCHANGED <<decVars, stackVars, dasmVars>>

\* Emulator::run up to the call of emulation_loop: the state is reset, the
\* program is loaded at start_address (`?` returns the error), and the
\* program counter is set
Run(program) ==
    /\ e_pc = "idle"
    /\ LET r == Memory_load(Memory_default, start_address, program)
       IN  /\ memory' = r.self
           /\ e_call' = [fn |-> "run", offset |-> start_address, data |-> program,
                         before |-> Memory_default, result |-> r.result]
           /\ IF r.result = Ok
              THEN /\ program_counter' = start_address
                   /\ e_pc' = "loop"
                   /\ e_result' = NoValue
              ELSE /\ program_counter' = 0
                   /\ e_pc' = "returned"
                   /\ e_result' = r.result
    /\ spins' = 0
    /\ stack_index' = Stack_default.stack_index
    /\ stack_memory' = Stack_default.memory
    /\ UNCHANGED <<loads, s_op, s_result, s_oob>>
    /\ UNCHANGED <<decVars, dasmVars>>

\* Emulator::emulation_loop: `loop {}`, one iteration.  Nothing is fetched,
\* nothing is decoded and the function never returns.
emulation_loop ==
    /\ e_pc = "loop"
    /\ spins' = (spins + 1) % (MaxSpins + 1)
    /\ UNCHANGED <<memory, program_counter, e_pc, e_result, e_call, loads>>
    /\ UNCHANGED <<decVars, stackVars, dasmVars>>

\* The addresses (u16) and the memory contents fetch_instruction is called with
FetchAddrs == {0, 1, 2, 512, 513, 4092, 4093, 4094, 4095, 4096, 4098, 65534, 65535}
FetchLoadOffsets == {0, MEMORY_SIZE - 4}
FetchLoadWords == {<<162, 52>>, <<80, 1>>, <<18, 0>>}

\* A direct call of Memory::fetch_instruction on the memory; a failed
\* assertion unwinds the caller
FetchInstruction(address) ==
    /\ e_pc \in {"idle", "unit"}
    /\ LET r == Memory_fetch_instruction(memory, address)
       IN  /\ e_call' = [fn |-> "fetch", offset |-> address, data |-> <<>>,
                         before |-> <<>>, result |-> r]
           /\ e_pc' = IF r = Panic THEN "panicked" ELSE "unit"
    /\ UNCHANGED <<memory, program_counter, e_result, loads, spins>>
    /\ UNCHANGED <<decVars, stackVars, dasmVars>>

(***************************************************************************)
(* Formatting: {:0wX} of an unsigned integer, {:x} of a Nibble, and        *)
(* impl Display for Opcode                                                 *)
(***************************************************************************)
UpperDigits == <<"0", "1", "2", "3", "4", "5", "6", "7",
                 "8", "9", "A", "B", "C", "D", "E", "F">>

LowerDigits == <<"0", "1", "2", "3", "4", "5", "6", "7",
                 "8", "9", "a", "b", "c", "d", "e", "f">>

RECURSIVE UpperHex(_, _)
\* format!("{:0widthX}", n): at least width digits, zero padded
UpperHex(n, width) ==
    IF n < 16 /\ width <= 1
    THEN UpperDigits[n + 1]
    ELSE UpperHex(n \div 16, width - 1) \o UpperDigits[(n % 16) + 1]

\* impl Display for Nibble: {:x}
Nibble_fmt(n) == LowerDigits[n + 1]

V(r) == "V" \o Nibble_fmt(r)

Opcode_fmt(op) ==
    LET t == op[1]
    IN  CASE t = "Sys"     -> "SYS  0x" \o UpperHex(op[2], 3)
          [] t = "Cls"     -> "CLS"
          [] t = "Ret"     -> "RET"
          [] t = "Jp"      -> "JP   0x" \o UpperHex(op[2], 3)
          [] t = "Call"    -> "CALL 0x" \o UpperHex(op[2], 3)
          [] t = "Se"      -> "SE   " \o V(op[2]) \o ", 0x" \o UpperHex(op[3], 2)
          [] t = "Sne"     -> "SNE  " \o V(op[2]) \o ", 0x" \o UpperHex(op[3], 2)
          [] t = "Sev"     -> "SE   " \o V(op[2]) \o ", " \o V(op[3])
          [] t = "LdImm"   -> "LD   " \o V(op[2]) \o ", 0x" \o UpperHex(op[3], 2)
          [] t = "AddImm"  -> "ADD  " \o V(op[2]) \o ", 0x" \o UpperHex(op[3], 2)
          [] t = "Ld"      -> "LD   " \o V(op[2]) \o ", " \o V(op[3])
          [] t = "Or"      -> "OR   " \o V(op[2]) \o ", " \o V(op[3])
          [] t = "And"     -> "AND  " \o V(op[2]) \o ", " \o V(op[3])
          [] t = "Xor"     -> "XOR  " \o V(op[2]) \o ", " \o V(op[3])
          [] t = "Add"     -> "ADD  " \o V(op[2]) \o ", " \o V(op[3])
          [] t = "Sub"     -> "SUB  " \o V(op[2]) \o ", " \o V(op[3])
          [] t = "Shr"     -> "SHR  " \o V(op[2])
          [] t = "Subn"    -> "SUBN " \o V(op[2]) \o ", " \o V(op[3])
          [] t = "Shl"     -> "SHL   " \o V(op[2])
          [] t = "Snev"    -> "SNE  " \o V(op[2]) \o ", " \o V(op[3])
          [] t = "Ldi"     -> "LD   I, 0x" \o UpperHex(op[2], 3)
          [] t = "JpV0"    -> "JP   V0, 0x" \o UpperHex(op[2], 3)
          [] t = "Rnd"     -> "RND  " \o V(op[2]) \o ", 0x" \o UpperHex(op[3], 2)
          [] t = "Drw"     -> "DRW  " \o V(op[2]) \o ", " \o V(op[3])
                                \o ", 0x" \o UpperHex(op[4], 1)
          [] t = "Skp"     -> "SKP  " \o V(op[2])
          [] t = "Sknp"    -> "SKNP " \o V(op[2])
          [] t = "LdVDt"   -> "LD   " \o V(op[2]) \o ", DT"
          [] t = "LdK"     -> "LD   " \o V(op[2]) \o ", K"
          [] t = "LdDtV"   -> "LD   DT, " \o V(op[2])
          [] t = "LdStV"   -> "LD   ST, " \o V(op[2])
          [] t = "AddI"    -> "ADD  I, " \o V(op[2])
          [] t = "LdF"     -> "LD   F, " \o V(op[2])
          [] t = "LdB"     -> "LD   B, " \o V(op[2])
          [] t = "Dump"    -> "LD   [I], " \o V(op[2])
          [] t = "Restore" -> "LD   " \o V(op[2]) \o ", [I]"

(***************************************************************************)
(* disassemble.rs                                                          *)
(***************************************************************************)
DEFAULT_START_ADDR == 512

\* usize::MAX.  It is only ever compared with indices into a program, so the
\* largest number the checker represents stands for it.
USIZE_MAX == 2147483647

\* n - 1 in usize without overflow checks
usize_wrapping_dec(n) == IF n = 0 THEN USIZE_MAX ELSE n - 1

\* Disassembler::new
Disassembler_new ==
    [include_addresses |-> FALSE, start_address |-> DEFAULT_START_ADDR,
     include_binary |-> FALSE, overflow_checks |-> TRUE]

Line(text) == <<"Line", text>>

\* Disassembler::write_instruction: the line written, or Panic when
\* `index as u16 + self.start_address` overflows in a build with overflow
\* checks (the sum wraps in a build without them)
write_instruction(self, op, index, bs) ==
    LET opcode_text == IF op = None THEN "--" ELSE Opcode_fmt(op)
        sum  == (index % 65536) + self.start_address
        addr == sum % 65536
    IN  IF sum > 65535 /\ self.overflow_checks THEN Panic
        ELSE Line(
             CASE self.include_addresses /\ self.include_binary ->
                    UpperHex(addr, 3) \o "   " \o UpperHex(bs[1], 2) \o " "
                        \o UpperHex(bs[2], 2) \o "    " \o opcode_text
               [] self.include_addresses /\ ~self.include_binary ->
                    UpperHex(addr, 3) \o "    " \o opcode_text
               [] ~self.include_addresses /\ self.include_binary ->
                    UpperHex(bs[1], 2) \o " " \o UpperHex(bs[2], 2) \o "    " \o opcode_text
               [] OTHER -> opcode_text)

\* Bound of the model: the longest program handed to disassemble
MaxProgramLen == 4

ProgramBytes == {0, 1, 80, 224}

StartAddresses == {DEFAULT_START_ADDR, 65535}

RECURSIVE SeqsUpTo(_, _)
\* The sequences over S of length at most n
SeqsUpTo(S, n) ==
    IF n = 0 THEN {<<>>}
    ELSE LET shorter == SeqsUpTo(S, n - 1)
         IN  shorter \cup {Append(q, x) : q \in {r \in shorter : Len(r) = n - 1}, x \in S}

\* A Disassembler as Disassembler::new builds it, in a build with or
\* without integer overflow checks
DasmInit ==
    /\ d_opts \in {[Disassembler_new EXCEPT !.overflow_checks = c] : c \in BOOLEAN}
    /\ d_program = <<>>
    /\ d_i = 0
    /\ d_end = 0
    /\ d_out = <<>>
    /\ d_pc = "idle"

with_addresses(include_addresses) ==
    /\ d_pc = "idle"
    /\ d_opts' = [d_opts EXCEPT !.include_addresses = include_addresses]
    /\ UNCHANGED <<d_program, d_i, d_end, d_out, d_pc>>
    /\ UNCHANGED <<decVars, stackVars, emuVars>>

with_start_address(address) ==
    /\ d_pc = "idle"
    /\ d_opts' = [d_opts EXCEPT !.start_address = address]
    /\ UNCHANGED <<d_program, d_i, d_end, d_out, d_pc>>
    /\ UNCHANGED <<decVars, stackVars, emuVars>>

with_binary(include_binary) ==
    /\ d_pc = "idle"
    /\ d_opts' = [d_opts EXCEPT !.include_binary = include_binary]
    /\ UNCHANGED <<d_program, d_i, d_end, d_out, d_pc>>
    /\ UNCHANGED <<decVars, stackVars, emuVars>>

\* Disassembler::disassemble up to the loop: the parity test, then the range
\* 0..program.len() - 1, whose end is computed in usize
disassemble(program) ==
    /\ d_pc = "idle"
    /\ d_program' = program
    /\ d_i' = 0
    /\ d_out' = <<>>
    /\ IF Len(program) % 2 # 0
       THEN d_pc' = "panic" /\ d_end' = 0
       ELSE IF Len(program) - 1 < 0 /\ d_opts.overflow_checks
       THEN d_pc' = "panic" /\ d_end' = 0
       ELSE d_pc' = "loop" /\ d_end' = usize_wrapping_dec(Len(program))
    /\ UNCHANGED d_opts
    /\ UNCHANGED <<decVars, stackVars, emuVars>>

\* One iteration of `for i in (0..end).step_by(2)`: the slice i..i+2 (bounds
\* checked), Opcode::decode, write_instruction
disassemble_step ==
    /\ d_pc = "loop"
    /\ IF d_i >= d_end
       THEN d_pc' = "done" /\ UNCHANGED <<d_i, d_out>>
       ELSE IF d_i + 2 > Len(d_program)
       THEN d_pc' = "panic" /\ UNCHANGED <<d_i, d_out>>
       ELSE LET opcode_bytes == SubSeq(d_program, d_i + 1, d_i + 2)
                line == write_instruction(d_opts, decode(opcode_bytes), d_i, opcode_bytes)
            IN  IF line = Panic
                THEN d_pc' = "panic" /\ UNCHANGED <<d_i, d_out>>
                ELSE /\ d_out' = Append(d_out, line[2])
                     /\ d_i' = d_i + 2
                     /\ d_pc' = "loop"
    /\ UNCHANGED <<d_opts, d_program, d_end>>
    /\ UNCHANGED <<decVars, stackVars, emuVars>>

(***************************************************************************)
(* Specifications: one per component, each from the state after            *)
(* construction                                                            *)
(***************************************************************************)
Init == DecodeIdle /\ StackInit /\ EmuInit /\ DasmInit

NextDecode ==
    \/ dec_pc = "idle" /\ \E b0 \in U8, b1 \in U8 : FetchWord(b0, b1)
    \/ dec_pc = "idle" /\ \E op \in BoundaryOpcodes : EncodeStep(op)
    \/ DecodeStep

SpecDecode == Init /\ [][NextDecode]_vars

NextStack ==
    \/ \E addr \in PushAddrs : Push(addr)
    \/ Pop

SpecStack == Init /\ [][NextStack]_vars

NextEmu ==
    \/ Emulator_new
    \/ e_pc \in {"idle", "unit"} /\ loads < MaxLoads /\
            \E offset \in LoadOffsets, len \in LoadLens, word \in LoadWords :
                Load(offset, Data(len, word))
    \/ e_pc = "idle" /\ \E len \in ProgramLens, word \in ProgramWords : Run(Data(len, word))
    \/ emulation_loop

SpecEmu == Init /\ [][NextEmu]_vars

\* emulation_loop keeps iterating once run has entered it
SpecEmuFair == SpecEmu /\ WF_vars(emulation_loop)

NextFetch ==
    \/ Emulator_new
    \/ e_pc \in {"idle", "unit"} /\ loads < MaxLoads /\
            \E offset \in FetchLoadOffsets, word \in FetchLoadWords :
                Load(offset, Data(4, word))
    \/ e_pc \in {"idle", "unit"} /\ \E address \in FetchAddrs : FetchInstruction(address)

SpecFetch == Init /\ [][NextFetch]_vars

NextDasm ==
    \/ \E b \in BOOLEAN : with_addresses(b)
    \/ \E a \in StartAddresses : with_start_address(a)
    \/ \E b \in BOOLEAN : with_binary(b)
    \/ d_pc = "idle" /\ \E program \in SeqsUpTo(ProgramBytes, MaxProgramLen) :
            disassemble(program)
    \/ disassemble_step

SpecDasm == Init /\ [][NextDasm]_vars

Next == NextDecode \/ NextStack \/ NextEmu \/ NextFetch \/ NextDasm

Spec == Init /\ [][Next]_vars

(***************************************************************************)
(* Properties of Opcode::decode (SpecDecode)                               *)
(***************************************************************************)

\* C1: Opcode::decode is total on 2-byte inputs: for each of the 65536
\* pairs it returns exactly one Opcode or None, and never panics.
C1_DecodeTotal ==
    dec_pc = "done" =>
        /\ opcode # Panic
        /\ opcode = None \/ IsOpcode(opcode)
        /\ ~(opcode = None /\ IsOpcode(opcode))

C1_Witness ==
    /\ dec_pc = "done"
    /\ rt_op = None
    /\ bytes = <<255, 255>>
    /\ opcode = None

\* C2: decode returns None for exactly the words of group 5 or 9 whose low
\* nibble of byte 2 is not 0, of group 8 whose low nibble of byte 2 is
\* outside {0..7, 0xE}, of group 0xE whose byte 2 is outside {0x9E, 0xA1},
\* and of group 0xF whose byte 2 is outside the nine listed codes; every
\* other word decodes to an Opcode.
C2_NoneExactly ==
    dec_pc = "done" =>
        LET b0 == bytes[1]
            b1 == bytes[2]
            group == b0 \div 16
            low == b1 % 16
            unmapped ==
                \/ group \in {5, 9} /\ low # 0
                \/ group = 8 /\ low \notin {0, 1, 2, 3, 4, 5, 6, 7, 14}
                \/ group = 14 /\ b1 \notin {158, 161}
                \/ group = 15 /\ b1 \notin {7, 10, 21, 24, 30, 41, 51, 85, 101}
        IN  /\ (opcode = None) <=> unmapped
            /\ ~unmapped => IsOpcode(opcode)

C2_Witness ==
    /\ dec_pc = "done"
    /\ bytes = <<80, 1>>
    /\ opcode = None

\* C3: in group 0 the word 0x00E0 decodes to Cls, 0x00EE to Ret, and every
\* other word to Sys(nnn) with nnn the low 12 bits of the word; none decodes
\* to None.
C3_GroupZero ==
    (dec_pc = "done" /\ bytes[1] \div 16 = 0) =>
        LET word == bytes[1] * 256 + bytes[2]
        IN  /\ opcode # None
            /\ opcode = IF word = 224 THEN Cls
                        ELSE IF word = 238 THEN Ret
                        ELSE Sys(word % 4096)

C3_Witness ==
    /\ dec_pc = "done"
    /\ bytes = <<1, 35>>
    /\ opcode = Sys(291)

\* C4: the operands of a decoded Opcode come from fixed bit positions of the
\* word: the low 12 bits for the address of groups 1, 2, A, B; the low
\* nibble of byte 1 and byte 2 for the register and immediate of groups 3,
\* 4, 6, 7, C; the low nibble of byte 1 and the high nibble of byte 2 for the
\* registers of groups 5, 8, 9, D (Shr and Shl carry the first register
\* only); the low nibble of byte 2 for the height of group D.  Every
\* register id and nibble is in 0..15 and every address at most 0xFFF.
C4_OperandFields ==
    (dec_pc = "done" /\ opcode # None) =>
        LET b0 == bytes[1]
            b1 == bytes[2]
            group == b0 \div 16
            x == b0 % 16
            y == b1 \div 16
            n == b1 % 16
            nnn == (b0 * 256 + b1) % 4096
        IN  /\ group \in {1, 2, 10, 11} =>
                    Len(opcode) = 2 /\ opcode[2] = nnn /\ opcode[2] <= 4095
            /\ group \in {3, 4, 6, 7, 12} =>
                    Len(opcode) = 3 /\ opcode[2] = x /\ opcode[3] = b1
            /\ group \in {5, 8, 9, 13} =>
                    /\ opcode[2] = x
                    /\ opcode[1] \notin {"Shr", "Shl"} => opcode[3] = y
                    /\ opcode[1] \in {"Shr", "Shl"} => Len(opcode) = 2
            /\ group = 13 => Len(opcode) = 4 /\ opcode[4] = n
            /\ group \in {14, 15} => Len(opcode) = 2 /\ opcode[2] = x
            /\ group \notin {0, 1, 2, 10, 11} => opcode[2] \in 0..15
            /\ group \in {5, 8, 9, 13} /\ Len(opcode) >= 3 => opcode[3] \in 0..15
            /\ group = 13 => opcode[4] \in 0..15

C4_Witness ==
    /\ dec_pc = "done"
    /\ bytes = <<130, 20>>
    /\ opcode = Add(2, 1)

\* C5: for every Opcode variant over the boundary operand values, encoding
\* it into its word and decoding the word returns the same variant with the
\* same operands.
C5_RoundTrip ==
    (dec_pc = "done" /\ rt_op # None) =>
        /\ bytes = Encode(rt_op)
        /\ opcode = rt_op

C5_Witness ==
    /\ dec_pc = "done"
    /\ rt_op = Sub(0, 15)
    /\ bytes = <<128, 245>>
    /\ opcode = Sub(0, 15)

(***************************************************************************)
(* Properties of Stack (SpecStack)                                         *)
(***************************************************************************)

\* C6: the stack holds 16 return addresses: a push returns StackOverflow
\* only when 16 addresses are already stored, so 16 consecutive pushes on an
\* empty stack all return Ok.
C6_SixteenPushes ==
    (s_op[1] = "push" /\ s_result = StackOverflow) => stack_index = STACK_SIZE

\* C7: the number of stored addresses never exceeds the capacity and the
\* backing array is never indexed out of bounds; pop on an empty stack
\* returns StackUnderflow, push on a stack with no free slot left returns
\* StackOverflow, and a call that returns an error leaves the index and the
\* stored addresses unchanged.
C7_StackSafe ==
    /\ [](stack_index <= STACK_SIZE /\ ~s_oob /\ s_result # Panic)
    /\ [][ /\ (s_op'[1] = "pop" /\ stack_index = 0) => s_result' = StackUnderflow
           /\ (s_op'[1] = "push" /\ stack_index >= STACK_SIZE - 1) =>
                    s_result' = StackOverflow
           /\ s_result' \in {StackOverflow, StackUnderflow} =>
                    stack_index' = stack_index /\ stack_memory' = stack_memory
         ]_vars

C7_Witness ==
    /\ s_op[1] = "push"
    /\ s_result = StackOverflow
    /\ stack_index = STACK_SIZE - 1
    /\ \A i \in 1..(STACK_SIZE - 1) : stack_memory[i] \in PushAddrs

\* C12: the Stack is a LIFO sequence.  Its contents, the addresses in slots
\* 1..stack_index, start empty; a successful push appends its argument, a
\* successful pop returns the last element (the most recent push not yet
\* popped) and removes it, and a failed call leaves the contents as they are.
C12_StackLifo ==
    /\ [](s_op = <<"new">> => stack_index = 0)
    /\ [][ LET live(i, m) == [k \in 1..i |-> m[k]]
               before == live(stack_index, stack_memory)
               after == live(stack_index', stack_memory')
           IN  /\ (s_op'[1] = "push" /\ s_result' = Ok) =>
                        after = Append(before, s_op'[2])
               /\ (s_op'[1] = "pop" /\ s_result'[1] = "Ok") =>
                        /\ stack_index > 0
                        /\ s_result' = OkValue(before[stack_index])
                        /\ after = SubSeq(before, 1, stack_index - 1)
               /\ s_result'[1] = "Err" => after = before
               /\ s_result'[1] \in {"Ok", "Err"}
         ]_vars

C12_Witness ==
    /\ s_op = <<"pop">>
    /\ s_result = OkValue(4094)
    /\ stack_index = 1
    /\ stack_memory[1] = 512
    /\ stack_memory[2] = 4094

(***************************************************************************)
(* Properties of Memory::load and Emulator::run (SpecEmu, SpecEmuFair)     *)
(***************************************************************************)

\* C8: Memory::load(offset, data) with data.len() <= 4096 - offset returns
\* Ok, stores data[i] at offset + i and leaves every other byte unchanged;
\* otherwise it returns OutOfMemory and leaves memory unchanged.  So
\* Emulator::run returns OutOfMemory for a program longer than 3584 bytes
\* before the loop is entered, and loads a program of 3584 bytes or fewer.
C8_LoadFits ==
    LET offset == e_call.offset
        data == e_call.data
        len == Len(data)
        before == SubSeq(e_call.before, 1, 4096)
        loaded == SubSeq(before, 1, offset) \o SubSeq(data, 1, len)
                    \o SubSeq(before, offset + len + 1, 4096)
        now == SubSeq(memory, 1, 4096)
    IN  /\ e_call.fn \in {"load", "run"} =>
                IF len <= 4096 - offset
                THEN e_call.result = Ok /\ Len(now) = 4096 /\ now = loaded
                ELSE e_call.result = OutOfMemory /\ now = before
        /\ e_call.fn = "run" =>
                /\ offset = 512
                /\ len > 3584 => e_pc = "returned" /\ e_result = OutOfMemory /\ spins = 0
                /\ len <= 3584 => e_pc = "loop" /\ e_result = NoValue

C8_Witness ==
    /\ e_call.fn = "load"
    /\ e_call.offset = 512
    /\ Len(e_call.data) = 3584
    /\ e_call.result = Ok
    /\ e_call.before # Memory_default
    /\ Memory_at(memory, 4095) # 0
    /\ Memory_at(memory, 0) # 0

\* C9: when the word at the program counter has no instruction mapping,
\* Emulator::run eventually returns Err(InvalidInstruction(A)) with A the
\* address of that word.
C9_InvalidInstructionHalts ==
    (e_pc = "loop"
        /\ decode(Memory_fetch_instruction(memory, program_counter)) = None)
    ~> (e_pc = "returned" /\ e_result = InvalidInstruction(program_counter))

\* C11: Memory::fetch_instruction(address) succeeds for every even address
\* that leaves room for a 2-byte word in the 4096-byte memory (0x000 to 0xFFE)
\* and returns memory[address] and memory[address + 1]; it fails only for an
\* odd address or one with address + 2 > 4096.
C11_FetchEveryWord ==
    e_call.fn = "fetch" =>
        LET address == e_call.offset
        IN  IF address % 2 = 0 /\ address + 2 <= 4096
            THEN e_call.result = <<Memory_at(memory, address),
                                   Memory_at(memory, address + 1)>>
            ELSE e_call.result = Panic

(***************************************************************************)
(* Properties of Disassembler::disassemble (SpecDasm)                      *)
(***************************************************************************)

\* C10: on every even-length byte sequence, the empty one included,
\* disassemble completes without panicking and writes exactly len/2 lines,
\* line k made from bytes 2k and 2k+1, with "--" for a pair that decodes to
\* None; an odd-length sequence is rejected before any line is written.
C10_DisassembleLines ==
    LET len == Len(d_program)
        pair(k) == SubSeq(d_program, 2 * k + 1, 2 * k + 2)
    IN  /\ (d_pc # "idle" /\ len % 2 = 0) => d_pc # "panic"
        /\ (d_pc # "idle" /\ len % 2 = 1) => d_pc = "panic" /\ d_out = <<>>
        /\ d_pc = "done" =>
                /\ Len(d_out) = len \div 2
                /\ \A k \in 0..((len \div 2) - 1) :
                        /\ Line(d_out[k + 1]) =
                                write_instruction(d_opts, decode(pair(k)), 2 * k, pair(k))
                        /\ (decode(pair(k)) = None /\ ~d_opts.include_addresses
                                /\ ~d_opts.include_binary) => d_out[k + 1] = "--"

====
